---- MODULE Spec2Model ----
(***************************************************************************)
(* nwacc::hash_table<T, K> (src/Final/hash_table.h): an open-addressing    *)
(* hash table with quadratic probing, lazy deletion and rehashing.         *)
(*                                                                         *)
(* T and K are modelled as two integral types, K implicitly convertible to *)
(* T without loss (insert, remove(const K&), contains(const K&) and        *)
(* get_key all pass a K to find_position(const T&)).  Elements and keys    *)
(* are drawn from 0..MaxItem.  Slot indices are the source's (0-based);    *)
(* the vector is a TLA+ sequence, so slot i of the source is array[i+1].   *)
(***************************************************************************)
EXTENDS Integers, Sequences, FiniteSets

\* ---- bounds of the model ----
MaxItem == 1
MaxHashMod == 2
MaxRequest == 6
MaxCapacity == 23
MaxCalls == 4

Values == 0..MaxItem
Keys == 0..MaxItem

\* enum entry_type { kActive, kEmpty, kDeleted }
kActive == 0
kEmpty == 1
kDeleted == 2

\* the result of C++ operator! on an integer (bool promoted back to int)
LogicalNot(x) == IF x = 0 THEN 1 ELSE 0

VARIABLES
    array,         \* std::vector<entry> array
    current_size,  \* std::size_t current_size
    hash_object,   \* static std::hash<T> hash_object: one fixed pure function
    fault,         \* TRUE once an operation has read outside the vector
    last,          \* the operation just completed, its arguments and result
    calls,         \* number of member-function calls made so far
    history        \* what the caller has asked for so far (SpecHistory only)

vars == <<array, current_size, hash_object, fault, last, calls, history>>

\* entry(const T & e = T{}, const K & k = K{}, entry_type t = kEmpty)
entry(e, k, t) == [element |-> e, key |-> k, type |-> t]

default_entry == entry(0, 0, kEmpty)

\* array[i] of the source
At(a, i) == a[i + 1]

\* array[i] = e of the source
Put(a, i, e) == [a EXCEPT ![i + 1] = e]

\* position returned when the probe runs outside the vector
NoPos == 0 - 1

RECURSIVE is_prime_loop(_, _)
is_prime_loop(number, counter) ==
    IF counter * counter <= number
    THEN IF number % counter = 0 THEN FALSE
         ELSE is_prime_loop(number, counter + 2)
    ELSE TRUE

\* mutant: the trial division starts at 5, so multiples of 3 pass
is_prime_from_five(number) ==
    IF number = 2 \/ number = 3 THEN TRUE
    ELSE IF number = 1 \/ number % 2 = 0 THEN FALSE
    ELSE is_prime_loop(number, 5)

\* mutant: 1 is not rejected
is_prime_accepts_one(number) ==
    IF number = 2 \/ number = 3 THEN TRUE
    ELSE IF number % 2 = 0 THEN FALSE
    ELSE is_prime_loop(number, 3)

is_prime(number) ==
    IF number = 2 \/ number = 3 THEN TRUE
    ELSE IF number = 1 \/ number % 2 = 0 THEN FALSE
    ELSE is_prime_loop(number, 3)

RECURSIVE next_prime_loop(_)
next_prime_loop(number) ==
    IF ~is_prime(number) THEN next_prime_loop(number + 2) ELSE number

next_prime(number) ==
    next_prime_loop(IF number % 2 = 0 THEN number + 1 ELSE number)

\* std::hash<T> is one pure function the library chooses; the model takes it
\* from the family v |-> v % m, from "every value collides" (m = 1) to the
\* identity of the usual std::hash of an integral type (m > MaxItem)
HashFunctions == {[v \in Values |-> v % m] : m \in 1..MaxHashMod}

\* hash_object(value) % array.size()
hash(h, a, value) == h[value] % Len(a)

RECURSIVE find_position_linear(_, _, _, _)
\* mutant: the offset is not advanced, so the probe is linear
find_position_linear(a, value, current_position, off_set) ==
    IF current_position >= Len(a) THEN <<NoPos>>
    ELSE IF At(a, current_position).type # kEmpty
            /\ At(a, current_position).element # value
    THEN LET next == current_position + off_set
         IN <<current_position>> \o
            find_position_linear(a, value,
                IF next >= Len(a) THEN next - Len(a) ELSE next,
                off_set)
    ELSE <<current_position>>

RECURSIVE find_position_stops_at_deleted(_, _, _, _)
\* mutant: the loop goes on over Active slots only, so any Deleted slot ends it
find_position_stops_at_deleted(a, value, current_position, off_set) ==
    IF current_position >= Len(a) THEN <<NoPos>>
    ELSE IF At(a, current_position).type = kActive
            /\ At(a, current_position).element # value
    THEN LET next == current_position + off_set
         IN <<current_position>> \o
            find_position_stops_at_deleted(a, value,
                IF next >= Len(a) THEN next - Len(a) ELSE next,
                off_set + 2)
    ELSE <<current_position>>

RECURSIVE find_position_probes(_, _, _, _)
\* the while loop of find_position: the indices it examines, in order; the
\* last one is the index returned, or NoPos for a read outside the vector
find_position_probes(a, value, current_position, off_set) ==
    IF current_position >= Len(a) THEN <<NoPos>>
    ELSE IF At(a, current_position).type # kEmpty
            /\ At(a, current_position).element # value
    THEN LET next == current_position + off_set
         IN <<current_position>> \o
            find_position_probes(a, value,
                IF next >= Len(a) THEN next - Len(a) ELSE next,
                off_set + 2)
    ELSE <<current_position>>

find_position_loop(a, value, current_position, off_set) ==
    LET probes == find_position_probes(a, value, current_position, off_set)
    IN probes[Len(probes)]

find_position(h, a, value) == find_position_loop(a, value, hash(h, a, value), 1)

is_active(a, current_position) == At(a, current_position).type = kActive

\* contains(const T & value); contains(const K & key) is the same code
contains(h, a, value) ==
    LET p == find_position(h, a, value)
    IN p # NoPos /\ is_active(a, p)

\* mutant: the loop over the entries is missing
make_empty_array_keeps(a) == a

\* make_empty(): the types only, the stored elements and keys stay
make_empty_array(a) == [i \in 1..Len(a) |-> [a[i] EXCEPT !.type = kEmpty]]

\* std::vector::resize(n): the old entries stay, default entries are appended
resize(a, n) ==
    [i \in 1..n |-> IF i <= Len(a) THEN a[i] ELSE default_entry]

\* a table is [array, current_size, fault]; insert adds ret
Table(a, n, f) == [array |-> a, current_size |-> n, fault |-> f]

RECURSIVE insert(_, _, _, _)
RECURSIVE rehash(_, _)
RECURSIVE rehash_loop(_, _, _, _)

\* mutant: the load check compares with the whole capacity
insert_full_load(h, t, value, key) ==
    LET current_position == find_position(h, t.array, key)
    IN IF current_position = NoPos
       THEN [t |-> Table(t.array, t.current_size, TRUE), ret |-> FALSE]
       ELSE IF is_active(t.array, current_position)
       THEN IF At(t.array, current_position).key = key
            THEN [t |-> Table(Put(t.array, current_position,
                                  [At(t.array, current_position)
                                       EXCEPT !.element = value]),
                              t.current_size, t.fault),
                  ret |-> FALSE]
            ELSE [t |-> t, ret |-> FALSE]
       ELSE LET written == Table(Put(t.array, current_position,
                                     entry(value, key, kActive)),
                                 t.current_size + 1, t.fault)
            IN IF written.current_size > Len(written.array)
               THEN [t |-> rehash(h, written), ret |-> TRUE]
               ELSE [t |-> written, ret |-> TRUE]

\* mutant: an update in place reports true
insert_update_true(h, t, value, key) ==
    LET current_position == find_position(h, t.array, key)
    IN IF current_position = NoPos
       THEN [t |-> Table(t.array, t.current_size, TRUE), ret |-> FALSE]
       ELSE IF is_active(t.array, current_position)
       THEN IF At(t.array, current_position).key = key
            THEN [t |-> Table(Put(t.array, current_position,
                                  [At(t.array, current_position)
                                       EXCEPT !.element = value]),
                              t.current_size, t.fault),
                  ret |-> TRUE]
            ELSE [t |-> t, ret |-> FALSE]
       ELSE LET written == Table(Put(t.array, current_position,
                                     entry(value, key, kActive)),
                                 t.current_size + 1, t.fault)
            IN IF written.current_size > Len(written.array) \div 2
               THEN [t |-> rehash(h, written), ret |-> TRUE]
               ELSE [t |-> written, ret |-> TRUE]

\* mutant: the load check uses >=, so the table grows one insert early
insert_eager_rehash(h, t, value, key) ==
    LET current_position == find_position(h, t.array, key)
    IN IF current_position = NoPos
       THEN [t |-> Table(t.array, t.current_size, TRUE), ret |-> FALSE]
       ELSE IF is_active(t.array, current_position)
       THEN IF At(t.array, current_position).key = key
            THEN [t |-> Table(Put(t.array, current_position,
                                  [At(t.array, current_position)
                                       EXCEPT !.element = value]),
                              t.current_size, t.fault),
                  ret |-> FALSE]
            ELSE [t |-> t, ret |-> FALSE]
       ELSE LET written == Table(Put(t.array, current_position,
                                     entry(value, key, kActive)),
                                 t.current_size + 1, t.fault)
            IN IF written.current_size >= Len(written.array) \div 2
               THEN [t |-> rehash(h, written), ret |-> TRUE]
               ELSE [t |-> written, ret |-> TRUE]

\* bool insert(const T & value, const K & key)
insert(h, t, value, key) ==
    LET current_position == find_position(h, t.array, key)
    IN IF current_position = NoPos
       THEN [t |-> Table(t.array, t.current_size, TRUE), ret |-> FALSE]
       ELSE IF is_active(t.array, current_position)
       THEN IF At(t.array, current_position).key = key
            THEN [t |-> Table(Put(t.array, current_position,
                                  [At(t.array, current_position)
                                       EXCEPT !.element = value]),
                              t.current_size, t.fault),
                  ret |-> FALSE]
            ELSE [t |-> t, ret |-> FALSE]
       ELSE LET written == Table(Put(t.array, current_position,
                                     entry(value, key, kActive)),
                                 t.current_size + 1, t.fault)
            IN IF written.current_size > Len(written.array) \div 2
               THEN [t |-> rehash(h, written), ret |-> TRUE]
               ELSE [t |-> written, ret |-> TRUE]

\* the second loop of rehash(): for (auto & entry : old_array)
rehash_loop(h, t, old_array, i) ==
    IF i > Len(old_array) \/ t.fault THEN t
    ELSE IF old_array[i].type = kActive
    THEN rehash_loop(h,
             insert(h, t, old_array[i].element, old_array[i].key).t,
             old_array, i + 1)
    ELSE rehash_loop(h, t, old_array, i + 1)

\* void rehash(): current_size is left as it is
rehash(h, t) ==
    LET old_array == t.array
        resized == resize(t.array, next_prime(2 * Len(old_array)))
    IN rehash_loop(h, Table(make_empty_array(resized), t.current_size, t.fault),
                   old_array, 1)

\* mutant: the slot is compared with kDeleted instead of assigned
remove_unmarked(h, t, value) ==
    LET current_position == find_position(h, t.array, value)
    IN IF current_position = NoPos
       THEN [t |-> Table(t.array, t.current_size, TRUE), ret |-> FALSE]
       ELSE IF ~is_active(t.array, current_position)
       THEN [t |-> t, ret |-> FALSE]
       ELSE [t |-> t, ret |-> TRUE]

\* mutant: a successful remove also gives the slot back to the count
remove_decrements(h, t, value) ==
    LET current_position == find_position(h, t.array, value)
    IN IF current_position = NoPos
       THEN [t |-> Table(t.array, t.current_size, TRUE), ret |-> FALSE]
       ELSE IF ~is_active(t.array, current_position)
       THEN [t |-> t, ret |-> FALSE]
       ELSE [t |-> Table(Put(t.array, current_position,
                             [At(t.array, current_position)
                                  EXCEPT !.type = kDeleted]),
                         t.current_size - 1, t.fault),
             ret |-> TRUE]

\* mutant: the slot is marked kEmpty
remove_marks_empty(h, t, value) ==
    LET current_position == find_position(h, t.array, value)
    IN IF current_position = NoPos
       THEN [t |-> Table(t.array, t.current_size, TRUE), ret |-> FALSE]
       ELSE IF ~is_active(t.array, current_position)
       THEN [t |-> t, ret |-> FALSE]
       ELSE [t |-> Table(Put(t.array, current_position,
                             [At(t.array, current_position)
                                  EXCEPT !.type = kEmpty]),
                         t.current_size, t.fault),
             ret |-> TRUE]

\* bool remove(const T & value); remove(const K & key) is the same code
remove(h, t, value) ==
    LET current_position == find_position(h, t.array, value)
    IN IF current_position = NoPos
       THEN [t |-> Table(t.array, t.current_size, TRUE), ret |-> FALSE]
       ELSE IF ~is_active(t.array, current_position)
       THEN [t |-> t, ret |-> FALSE]
       ELSE [t |-> Table(Put(t.array, current_position,
                             [At(t.array, current_position)
                                  EXCEPT !.type = kDeleted]),
                         t.current_size, t.fault),
             ret |-> TRUE]

\* get_key(const K & key): throws when type == !kActive, else returns element
get_key(h, a, key) ==
    LET current_position == find_position(h, a, key)
    IN IF current_position = NoPos
       THEN [fault |-> TRUE, threw |-> FALSE, ret |-> 0]
       ELSE IF At(a, current_position).type = LogicalNot(kActive)
       THEN [fault |-> FALSE, threw |-> TRUE, ret |-> 0]
       ELSE [fault |-> FALSE, threw |-> FALSE,
             ret |-> At(a, current_position).element]

\* get_value(const T & value): throws when type == !kActive, else returns key
get_value(h, a, value) ==
    LET current_position == find_position(h, a, value)
    IN IF current_position = NoPos
       THEN [fault |-> TRUE, threw |-> FALSE, ret |-> 0]
       ELSE IF At(a, current_position).type = LogicalNot(kActive)
       THEN [fault |-> FALSE, threw |-> TRUE, ret |-> 0]
       ELSE [fault |-> FALSE, threw |-> FALSE,
             ret |-> At(a, current_position).key]

\* print(), first loop: for (auto i = 0; i <= array->size; i++) reads slot i,
\* whatever its type; the result is the indices read, in order
print_forward(a) == [n \in 1..(Len(a) + 1) |-> n - 1]

\* print(), second loop: for (auto i = array->size; i >= 0; i--)
print_backward(a) == [n \in 1..(Len(a) + 1) |-> Len(a) + 1 - n]

\* the table the variables hold
Self == Table(array, current_size, fault)

Op(name, value, key, ret, threw) ==
    [op |-> name, value |-> value, key |-> key, ret |-> ret, threw |-> threw]

\* explicit hash_table(int size): array(next_prime(size)), then make_empty()
Construct(size) ==
    /\ array = make_empty_array(resize(<<>>, next_prime(size)))
    /\ current_size = 0
    /\ fault = FALSE
    /\ last = Op("construct", size, 0, FALSE, FALSE)
    /\ calls = 0

Insert(value, key) ==
    LET r == insert(hash_object, Self, value, key)
    IN /\ ~fault
       /\ calls < MaxCalls
       /\ calls' = calls + 1
       /\ Len(r.t.array) <= MaxCapacity
       /\ array' = r.t.array
       /\ current_size' = r.t.current_size
       /\ fault' = r.t.fault
       /\ last' = Op("insert", value, key, r.ret, FALSE)
       /\ UNCHANGED hash_object

Remove(value) ==
    LET r == remove(hash_object, Self, value)
    IN /\ ~fault
       /\ calls < MaxCalls
       /\ calls' = calls + 1
       /\ array' = r.t.array
       /\ current_size' = r.t.current_size
       /\ fault' = r.t.fault
       /\ last' = Op("remove", value, 0, r.ret, FALSE)
       /\ UNCHANGED hash_object

RemoveKey(key) ==
    LET r == remove(hash_object, Self, key)
    IN /\ ~fault
       /\ calls < MaxCalls
       /\ calls' = calls + 1
       /\ array' = r.t.array
       /\ current_size' = r.t.current_size
       /\ fault' = r.t.fault
       /\ last' = Op("remove_key", 0, key, r.ret, FALSE)
       /\ UNCHANGED hash_object

MakeEmpty ==
    /\ ~fault
    /\ calls < MaxCalls
    /\ calls' = calls + 1
    /\ array' = make_empty_array(array)
    /\ current_size' = 0
    /\ last' = Op("make_empty", 0, 0, FALSE, FALSE)
    /\ UNCHANGED <<hash_object, fault>>

GetKey(key) ==
    LET r == get_key(hash_object, array, key)
    IN /\ ~fault
       /\ calls < MaxCalls
       /\ calls' = calls + 1
       /\ fault' = r.fault
       /\ last' = Op("get_key", 0, key, r.ret, r.threw)
       /\ UNCHANGED <<array, current_size, hash_object>>

GetValue(value) ==
    LET r == get_value(hash_object, array, value)
    IN /\ ~fault
       /\ calls < MaxCalls
       /\ calls' = calls + 1
       /\ fault' = r.fault
       /\ last' = Op("get_value", value, 0, r.ret, r.threw)
       /\ UNCHANGED <<array, current_size, hash_object>>

\* print() const: both loops read array[array.size()], outside the vector
PrintTable ==
    /\ ~fault
    /\ calls < MaxCalls
    /\ calls' = calls + 1
    /\ fault' = \E i \in 1..Len(print_forward(array)) :
                    print_forward(array)[i] >= Len(array)
    /\ last' = Op("print", 0, 0,
                  [forward |-> print_forward(array),
                   backward |-> print_backward(array)], FALSE)
    /\ UNCHANGED <<array, current_size, hash_object>>

\* ---- the caller's record of its own calls ----
\* keys: the keys passed to insert; distinct: no key was passed twice;
\* live: the <<value, key>> pairs inserted and not targeted by a remove since;
\* plain: only insert, remove and the accessors were called (no make_empty);
\* removed: a remove was called since construction or the last rehash
NoHistory ==
    [keys |-> {}, distinct |-> TRUE, live |-> {}, plain |-> TRUE,
     removed |-> FALSE]

AfterInsert(value, key) ==
    [history EXCEPT !.keys = @ \cup {key},
                    !.distinct = @ /\ key \notin history.keys,
                    !.live = @ \cup {<<value, key>>},
                    !.removed = @ /\ Len(array') = Len(array)]

AfterRemove(value) ==
    [history EXCEPT !.live = {p \in @ : p[1] # value}, !.removed = TRUE]

AfterRemoveKey(key) ==
    [history EXCEPT !.live = {p \in @ : p[2] # key}, !.removed = TRUE]

AfterMakeEmpty == [history EXCEPT !.live = {}, !.plain = FALSE]

Init ==
    /\ hash_object \in HashFunctions
    /\ \E size \in 1..MaxRequest : Construct(size)
    /\ history = NoHistory

Next ==
    \/ \E value \in Values, key \in Keys :
          Insert(value, key) /\ UNCHANGED history
    \/ \E value \in Values : Remove(value) /\ UNCHANGED history
    \/ \E key \in Keys : RemoveKey(key) /\ UNCHANGED history
    \/ MakeEmpty /\ UNCHANGED history
    \/ \E key \in Keys : GetKey(key) /\ UNCHANGED history
    \/ \E value \in Values : GetValue(value) /\ UNCHANGED history

Spec == Init /\ [][Next]_vars

NextHistory ==
    \/ \E value \in Values, key \in Keys :
          Insert(value, key) /\ history' = AfterInsert(value, key)
    \/ \E value \in Values : Remove(value) /\ history' = AfterRemove(value)
    \/ \E key \in Keys : RemoveKey(key) /\ history' = AfterRemoveKey(key)
    \/ MakeEmpty /\ history' = AfterMakeEmpty
    \/ \E key \in Keys : GetKey(key) /\ UNCHANGED history
    \/ \E value \in Values : GetValue(value) /\ UNCHANGED history

SpecHistory == Init /\ [][NextHistory]_vars

NextPrint ==
    \/ Next
    \/ PrintTable /\ UNCHANGED history

SpecPrint == Init /\ [][NextPrint]_vars

\* ---- vocabulary of the properties ----
IsPrimeNumber(n) == n > 1 /\ \A d \in 2..(n - 1) : n % d # 0

SmallestPrimeAtLeast(n) ==
    CHOOSE p \in n..(2 * n + 1) :
        IsPrimeNumber(p) /\ \A q \in n..(p - 1) : ~IsPrimeNumber(q)

SmallestOddPrimeAtLeast(n) ==
    CHOOSE p \in n..(2 * n + 3) :
        /\ IsPrimeNumber(p) /\ p % 2 = 1
        /\ \A q \in n..(p - 1) : ~(IsPrimeNumber(q) /\ q % 2 = 1)

ActivePairs(a) ==
    {<<a[i].element, a[i].key>> : i \in {j \in 1..Len(a) : a[j].type = kActive}}

AllEmpty(a) == \A i \in 1..Len(a) : a[i].type = kEmpty

\* the slot find_position reaches for value is not Active
NotActiveAt(a, value) ==
    LET p == find_position(hash_object, a, value)
    IN p # NoPos /\ ~is_active(a, p)

\* the indices find_position(value) examines in the current table
Probes(value) ==
    find_position_probes(array, value, hash(hash_object, array, value), 1)

Square(k) == k * k

ActiveCount(a) == Cardinality({i \in 1..Len(a) : a[i].type = kActive})

NonEmptyCount(a) == Cardinality({i \in 1..Len(a) : a[i].type # kEmpty})

\* the 0-based indices of the Active slots, ascending
ActiveIndices(a) ==
    LET IsActiveIndex(i) == a[i + 1].type = kActive
    IN SelectSeq([n \in 1..Len(a) |-> n - 1], IsActiveIndex)

Reverse(s) == [n \in 1..Len(s) |-> s[Len(s) + 1 - n]]

\* ---- C1 ----
\* C1: while all inserted keys are distinct, every value inserted and not
\* targeted by a remove since is found by contains, in every later state.
C1_InsertedStaysContained ==
    (history.distinct /\ history.plain) =>
        \A p \in history.live : contains(hash_object, array, p[1])

\* ---- C2 ----
\* C2: right after remove(x), contains(x) is false and a second remove(x)
\* returns false; remove(x) on a table that does not contain x returns false.
C2_RemoveThenAbsent ==
    [][last'.op = "remove" =>
          /\ ~contains(hash_object, array', last'.value)
          /\ ~remove(hash_object, Self', last'.value).ret
          /\ (~contains(hash_object, array, last'.value) => ~last'.ret)]_vars

C2_Witness ==
    /\ last.op = "remove"
    /\ last.ret
    /\ \E i \in 1..Len(array) :
          array[i].type = kDeleted /\ array[i].element = last.value

C4_OneGrowthStep ==
    [][(last'.op = "insert" /\ last'.ret
            /\ current_size + 1 > Len(array) \div 2) =>
          Len(array') = next_prime(2 * Len(array))]_vars

\* ---- C5 ----
\* C5: count <= capacity/2 after construction and after every operation.
C5_LoadFactor == current_size <= Len(array) \div 2

C5_Witness ==
    /\ last.op = "insert"
    /\ last.ret
    /\ Len(array) = 17
    /\ current_size = 6

\* ---- C6 ----
\* C6: the capacity is a prime number in every state.
C6_CapacityPrime == IsPrimeNumber(Len(array))

C6_Witness ==
    /\ last.op = "insert"
    /\ Len(array) = 11
    /\ current_size > 0

\* ---- C7 ----
\* C7: get_key / get_value signal not-found whenever the slot find_position
\* reaches is not Active (Empty or Deleted).
C7_AccessorsThrowUnlessActive ==
    /\ (last.op = "get_value" /\ NotActiveAt(array, last.value)) => last.threw
    /\ (last.op = "get_key" /\ NotActiveAt(array, last.key)) => last.threw

\* ---- C8 ----
\* C8: insert returns true iff it turned a slot that was not Active into an
\* Active one (a rehash happens only on that path); a false return leaves
\* every slot's state tag, count and capacity as they were.
C8_InsertReturnsActivation ==
    [][last'.op = "insert" =>
          /\ last'.ret <=>
                \/ Len(array') # Len(array)
                \/ \E i \in 1..Len(array) :
                      array[i].type # kActive /\ array'[i].type = kActive
          /\ ~last'.ret =>
                /\ Len(array') = Len(array)
                /\ current_size' = current_size
                /\ \A i \in 1..Len(array) : array'[i].type = array[i].type]_vars

C8_Witness ==
    /\ last.op = "insert"
    /\ ~last.ret
    /\ last.value # last.key
    /\ \E i \in 1..Len(array) :
          array[i] = entry(last.value, last.key, kActive)

\* ---- C9 ----
\* C9: when value is held by an Active slot under a different key, insert
\* returns false and changes nothing.
C9_DifferentKeyRejected ==
    [][(/\ last'.op = "insert"
        /\ LET p == find_position(hash_object, array, last'.value)
           IN /\ p # NoPos
              /\ is_active(array, p)
              /\ At(array, p).key # last'.key) =>
          /\ ~last'.ret
          /\ array' = array
          /\ current_size' = current_size]_vars

\* ---- C10 ----
\* C10 as stated: the constructed capacity is the smallest prime >= n.
C10_SmallestPrime ==
    last.op = "construct" =>
        /\ Len(array) = SmallestPrimeAtLeast(last.value)
        /\ AllEmpty(array)
        /\ current_size = 0

\* C10 amended: the constructed capacity is the smallest odd prime >= n, all
\* slots are Empty and count is 0.
C10_SmallestOddPrime ==
    last.op = "construct" =>
        /\ Len(array) = SmallestOddPrimeAtLeast(last.value)
        /\ AllEmpty(array)
        /\ current_size = 0

C10_Witness ==
    /\ last.op = "construct"
    /\ last.value = 4
    /\ Len(array) = 5

\* ---- C11 ----
\* C11: in every state find_position ends for every item, on an index inside
\* the vector, after at most (capacity + 1) / 2 probes, none examined twice.
C11_ProbeTerminates ==
    /\ ~fault
    /\ \A v \in Values :
          LET s == Probes(v)
          IN /\ s[Len(s)] # NoPos
             /\ Len(s) <= (Len(array) + 1) \div 2
             /\ \A i, j \in 1..Len(s) : i # j => s[i] # s[j]

C11_Witness ==
    /\ last.op = "insert"
    /\ \E v \in Values : Len(Probes(v)) >= 3

\* ---- C13 ----
\* C13: the k-th index find_position examines (k = 0, 1, ...) is
\* (hash(item) + k*k) mod capacity, hence inside [0, capacity).
C13_QuadraticProbe ==
    \A v \in Values :
        LET s == Probes(v)
        IN \A k \in 1..Len(s) :
              s[k] = (hash(hash_object, array, v) + Square(k - 1)) % Len(array)

C13_Witness ==
    \E v \in Values :
        LET s == Probes(v)
        IN Len(s) >= 3 /\ s[3] < s[2]

\* ---- C14 ----
\* C14 as stated: find_position returns an Empty slot or an Active slot
\* holding the item, never a Deleted slot.
C14_NeverDeleted ==
    \A v \in Values :
        LET p == find_position(hash_object, array, v)
        IN \/ At(array, p).type = kEmpty
           \/ At(array, p).type = kActive /\ At(array, p).element = v

\* C14 amended: find_position returns an Empty slot or a slot, Active or
\* Deleted, whose payload equals the item; a Deleted slot holding another
\* payload never stops the search.
C14_DeletedStopsOnlyOnEqualPayload ==
    \A v \in Values :
        LET p == find_position(hash_object, array, v)
        IN /\ p # NoPos
           /\ \/ At(array, p).type = kEmpty
              \/ At(array, p).element = v

C14_Witness ==
    \E v \in Values :
        LET s == Probes(v)
        IN /\ Len(s) >= 2
           /\ At(array, s[1]).type = kDeleted
           /\ At(array, s[1]).element # v
           /\ s[Len(s)] # NoPos

\* ---- C12 ----
\* C12: print visits exactly the Active slots, ascending and then descending,
\* reads no index outside [0, capacity) and leaves the table unchanged.
C12_PrintVisitsActiveSlots ==
    [][last'.op = "print" =>
          /\ last'.ret.forward = ActiveIndices(array)
          /\ last'.ret.backward = Reverse(ActiveIndices(array))
          /\ \A n \in 1..Len(last'.ret.forward) :
                last'.ret.forward[n] \in 0..(Len(array) - 1)
          /\ ~fault'
          /\ array' = array
          /\ current_size' = current_size]_vars

\* ---- C15 ----
\* C15: remove (by value or by key) never changes count or capacity; when it
\* returns true exactly one slot changed, and only its tag, from Active to
\* Deleted; when it returns false the table is unchanged.
C15_RemoveFrame ==
    [][last'.op \in {"remove", "remove_key"} =>
          /\ current_size' = current_size
          /\ Len(array') = Len(array)
          /\ last'.ret =>
                \E i \in 1..Len(array) :
                    /\ array[i].type = kActive
                    /\ array'[i] = [array[i] EXCEPT !.type = kDeleted]
                    /\ \A j \in 1..Len(array) : j # i => array'[j] = array[j]
          /\ ~last'.ret => array' = array]_vars

C15_Witness ==
    /\ last.op = "remove_key"
    /\ last.ret
    /\ current_size > ActiveCount(array)

\* ---- C16 ----
\* C16: while no remove has been called since construction or the last
\* rehash, count equals the number of Active slots.
C16_CountIsActiveCount ==
    ~history.removed => current_size = ActiveCount(array)

\* ---- C17 ----
\* C17 as stated: the capacity changes only on an insert after which the
\* number of Active slots exceeds capacity/2.
C17_RehashOnlyWhenActiveExceedsHalf ==
    [][Len(array') # Len(array) =>
          /\ last'.op = "insert"
          /\ ActiveCount(array) + 1 > Len(array) \div 2]_vars

\* C17 amended: the capacity changes exactly on an insert that activates a
\* slot and thereby raises count above capacity/2.
C17_RehashExactlyWhenCountExceedsHalf ==
    [][Len(array') # Len(array) <=>
          /\ last'.op = "insert"
          /\ last'.ret
          /\ current_size + 1 > Len(array) \div 2]_vars

C17_Witness ==
    /\ last.op = "insert"
    /\ last.ret
    /\ Len(array) = 7
    /\ current_size = 3
    /\ ActiveCount(array) = 1

\* ---- C18 ----
\* the tag changes a slot may make while the capacity stays the same
AllowedTagChanges ==
    {<<kEmpty, kActive>>, <<kActive, kActive>>, <<kActive, kDeleted>>,
     <<kDeleted, kActive>>, <<kEmpty, kEmpty>>, <<kDeleted, kDeleted>>}

SlotTagChanges(a, b) == {<<a[i].type, b[i].type>> : i \in 1..Len(a)}

\* C18 as stated: between two consecutive states with the same capacity a
\* slot's tag changes only Empty->Active, Active->Active, Active->Deleted or
\* Deleted->Active.
C18_TagChangesSameCapacity ==
    [][Len(array') = Len(array) =>
          SlotTagChanges(array, array') \subseteq AllowedTagChanges]_vars

\* C18 amended: the same, for every step other than make_empty; an Active
\* or Deleted slot becomes Empty only through a rehash or make_empty.
C18_TagChangesExceptMakeEmpty ==
    [][(Len(array') = Len(array) /\ last'.op # "make_empty") =>
          SlotTagChanges(array, array') \subseteq AllowedTagChanges]_vars

C18_Witness ==
    /\ last.op = "insert"
    /\ last.ret
    /\ Len(array) = 5
    /\ current_size = 2
    /\ NonEmptyCount(array) = 1

\* ---- C19 ----
\* C19: the slots that are not Empty (Active or Deleted) number at most
\* count, so at least half of the slots are Empty in every state.
C19_NonEmptyAtMostCount ==
    /\ NonEmptyCount(array) <= current_size
    /\ 2 * NonEmptyCount(array) <= Len(array)

C19_Witness ==
    /\ last.op = "remove"
    /\ last.ret
    /\ ActiveCount(array) >= 1
    /\ NonEmptyCount(array) > ActiveCount(array)
    /\ NonEmptyCount(array) < current_size

\* ---- C20 ----
\* C20: no two Active slots hold equal values.
C20_ActiveValuesDistinct ==
    \A i, j \in 1..Len(array) :
        (/\ i # j
         /\ array[i].type = kActive
         /\ array[j].type = kActive) => array[i].element # array[j].element

====
